---- MODULE Spec2Model ----
(***************************************************************************)
(* Employee-Process Matcher: the sqlite store of database.py, the matcher  *)
(* of matching_engine.py and the "Add New Employee" form of app.py.        *)
(*                                                                         *)
(* The store holds two tables.  processes is kept as the sequence of its   *)
(* rows in rowid order, employees likewise.  Every function of database.py *)
(* runs inside one sqlite transaction, so each is one atomic step; the     *)
(* form handler of app.py makes two separate store calls and is therefore  *)
(* modelled as three steps per browser session (match and in-memory        *)
(* decrement, update_process_vacancy, add_employee).  Each Streamlit       *)
(* session owns its copy of the catalog (st.session_state.process_data).   *)
(***************************************************************************)
EXTENDS Integers, Sequences, FiniteSets, TLC

\* ------------------------------------------------------------------ bounds
MaxVacancy == 2        \* vacancies of the catalogs the form and the matcher see
MaxStoreVacancy == 1   \* vacancies the store calls start from and edit up to
MaxEmployees == 2      \* INSERTs INTO employees in one behaviour
MaxProcessId == 3      \* imports start while the next process id is within it

\* ------------------------------------------------------- values and inputs
None == "None"
NoId == 0

ProcessNames == {"Alpha", "Beta"}
UnknownProcess == "Ghost"
Potentials == {"Sales", "Service"}
Communications == {"Excellent", "Good"}
EmployeeNames == {"Ann", "Bob"}
\* the (name, potential, communication) triples direct store calls are made with
Profiles ==
  {[name |-> "Ann", email |-> " Ann@X.org", potential |-> "Sales",
    communication |-> "Good"],
   [name |-> "Bob", email |-> "bob@x.org", potential |-> "Service",
    communication |-> "Excellent"]}
Sessions == {1, 2}
Changes == {-1, 1}

\* str.strip() on the strings that reach the matcher
Strip(s) ==
  CASE s = " Good" -> "Good"
    [] s = "Service " -> "Service"
    [] s = " Alpha" -> "Alpha"
    [] OTHER -> s

\* email.strip().lower() on the strings that reach the employees table
NormalizeEmail(s) ==
  CASE s = " Ann@X.org" -> "ann@x.org"
    [] s = "Sales" -> "sales"
    [] s = "Service" -> "service"
    [] OTHER -> s

\* Python's str ordering on the process names of the model
NameRank(n) ==
  CASE n = "Alpha" -> 1
    [] n = "Beta" -> 2
    [] OTHER -> 3

Min(S) == CHOOSE x \in S : \A y \in S : x <= y

\* ---------------------------------------------------------------- matcher
\* mutant of RowBefore: the name does not break a tie of vacancies
RowBeforeByVacancy(a, b) == a.vacancy > b.vacancy

RowBefore(a, b) ==
  \/ a.vacancy > b.vacancy
  \/ a.vacancy = b.vacancy /\ NameRank(a.name) < NameRank(b.name)

RECURSIVE SortRows(_)
SortRows(rows) ==
  IF rows = <<>> THEN <<>>
  ELSE LET first == CHOOSE i \in DOMAIN rows :
                      \A j \in DOMAIN rows :
                        \/ RowBefore(rows[i], rows[j])
                        \/ ~RowBefore(rows[j], rows[i]) /\ i <= j
           rest == [k \in 1..(Len(rows) - 1) |->
                      IF k < first THEN rows[k] ELSE rows[k + 1]]
       IN <<rows[first]>> \o SortRows(rest)

\* mutant of ExactMatch: the communication is not compared
ExactMatchAnyCommunication(r, potential, communication) ==
  /\ Strip(r.potential) = Strip(potential)
  /\ r.vacancy > 0

ExactMatch(r, potential, communication) ==
  /\ Strip(r.potential) = Strip(potential)
  /\ Strip(r.communication) = Strip(communication)
  /\ r.vacancy > 0

\* mutant of PotentialMatch: the fallback takes processes without vacancy
PotentialMatchAnyVacancy(r, potential) ==
  Strip(r.potential) = Strip(potential)

PotentialMatch(r, potential) ==
  /\ Strip(r.potential) = Strip(potential)
  /\ r.vacancy > 0

\* mutant of find_matching_process: a third pass on the communication alone
find_matching_process_relaxed(process_data, potential, communication) ==
  LET pass(test(_)) == SelectSeq(process_data, test)
      exact == pass(LAMBDA r : ExactMatch(r, potential, communication))
      byPotential == pass(LAMBDA r : PotentialMatch(r, potential))
      byCommunication ==
        pass(LAMBDA r : /\ Strip(r.communication) = Strip(communication)
                        /\ r.vacancy > 0)
  IN SortRows(IF exact # <<>> THEN exact
              ELSE IF byPotential # <<>> THEN byPotential
              ELSE byCommunication)

\* find_matching_process: the ranked rows, <<>> standing for None
find_matching_process(process_data, potential, communication) ==
  IF process_data = <<>> THEN <<>>
  ELSE LET exact == SelectSeq(process_data,
                      LAMBDA r : ExactMatch(r, potential, communication))
           matching == IF exact = <<>>
                       THEN SelectSeq(process_data,
                              LAMBDA r : PotentialMatch(r, potential))
                       ELSE exact
       IN SortRows(matching)

\* sort_values(['relevance', 'Vacancy', 'Process_Name'], [False, False, True])
SuggestionBefore(a, b) ==
  \/ a.relevance > b.relevance
  \/ a.relevance = b.relevance /\ RowBefore(a, b)

RECURSIVE SortSuggestions(_)
SortSuggestions(rows) ==
  IF rows = <<>> THEN <<>>
  ELSE LET first == CHOOSE i \in DOMAIN rows :
                      \A j \in DOMAIN rows :
                        \/ SuggestionBefore(rows[i], rows[j])
                        \/ ~SuggestionBefore(rows[j], rows[i]) /\ i <= j
           rest == [k \in 1..(Len(rows) - 1) |->
                      IF k < first THEN rows[k] ELSE rows[k + 1]]
       IN <<rows[first]>> \o SortSuggestions(rest)

\* matching_engine.get_process_suggestions: the scored rows, <<>> for None
get_process_suggestions(process_data, potential, communication) ==
  LET byPotential(r) == Strip(r.potential) = Strip(potential)
      byCommunication(r) == Strip(r.communication) = Strip(communication)
      suggested == SelectSeq(process_data,
                     LAMBDA r : /\ byPotential(r) \/ byCommunication(r)
                                /\ r.vacancy > 0)
      scored == [k \in DOMAIN suggested |->
                   [name |-> suggested[k].name,
                    potential |-> suggested[k].potential,
                    communication |-> suggested[k].communication,
                    vacancy |-> suggested[k].vacancy,
                    relevance |->
                      (IF byPotential(suggested[k]) THEN 2 ELSE 0)
                        + (IF byCommunication(suggested[k]) THEN 1 ELSE 0)]]
  IN SortSuggestions(scored)

\* -------------------------------------------------------------- validator
required_columns == {"Process_Name", "Potential", "Communication", "Vacancy"}
valid_potentials == {"Sales", "Consultation", "Service", "Support"}
valid_communications == {"Excellent", "Very Good", "Good"}

\* the parsed row without the mark of a Vacancy cell that is no number
CatalogRow(r) ==
  [name |-> r.name, potential |-> r.potential,
   communication |-> r.communication, vacancy |-> r.vacancy]

Rejected(msg) == [ok |-> FALSE, error |-> msg, data |-> <<>>]
Accepted(rows) == [ok |-> TRUE, error |-> None, data |-> rows]

\* the checks the two load_data functions share, after the file is parsed
ValidatedOrError(file, rows) ==
  IF ~(required_columns \subseteq file.columns)
  THEN Rejected("Missing required columns")
  ELSE IF \E k \in DOMAIN rows : ~rows[k].numeric
  THEN Rejected("Vacancy must contain numeric values")
  ELSE IF \E k \in DOMAIN rows : rows[k].potential \notin valid_potentials
  THEN Rejected("Invalid potential values")
  ELSE IF \E k \in DOMAIN rows :
            rows[k].communication \notin valid_communications
  THEN Rejected("Invalid communication values")
  ELSE Accepted([k \in DOMAIN rows |-> CatalogRow(rows[k])])

\* load_data of src/data_handler.py, the module app.py imports
load_data(file) == ValidatedOrError(file, file.rows)

\* data['Vacancy'].clip(lower=0)
Clip(vacancy) == IF vacancy < 0 THEN 0 ELSE vacancy

\* load_data of src/ProcessPotentialTracker-main/data_handler.py
main_load_data(file) ==
  LET stripped ==
        IF {"Process_Name", "Potential", "Communication"} \subseteq file.columns
        THEN [k \in DOMAIN file.rows |->
                [file.rows[k] EXCEPT !.name = Strip(@),
                                     !.potential = Strip(@),
                                     !.communication = Strip(@)]]
        ELSE file.rows
      r == ValidatedOrError(file, stripped)
  IN IF r.ok
     THEN Accepted([k \in DOMAIN r.data |->
                      [r.data[k] EXCEPT !.vacancy = Clip(@)]])
     ELSE r

\* ------------------------------------------------------------------ store
\* SQL LOWER() on the strings that reach the employees table
Lower(s) ==
  CASE s = " Ann@X.org" -> " ann@x.org"
    [] s = "Sales" -> "sales"
    [] s = "Service" -> "service"
    [] OTHER -> s

\* Python truthiness of an optional process name (None and '' are falsy)
Truthy(s) == s # None /\ s # ""

RowsNamed(procs, process_name) ==
  {i \in DOMAIN procs : procs[i].name = process_name}

\* cursor.fetchone() of SELECT ... WHERE process_name = ?: the first row
FetchOne(procs, process_name) == procs[Min(RowsNamed(procs, process_name))]

\* mutant of IncrementVacancy: the old process does not get its slot back
IncrementVacancySkipped(procs, process_name) == procs

\* UPDATE processes SET vacancy = vacancy + 1 WHERE process_name = ?
IncrementVacancy(procs, process_name) ==
  [i \in DOMAIN procs |->
     IF procs[i].name = process_name
     THEN [procs[i] EXCEPT !.vacancy = @ + 1] ELSE procs[i]]

\* mutant of ConditionalDecrement: the slot is not taken from the process
ConditionalDecrementSkipped(procs, process_name) == procs

\* UPDATE processes SET vacancy = vacancy - 1
\*   WHERE process_name = ? AND vacancy > 0
ConditionalDecrement(procs, process_name) ==
  [i \in DOMAIN procs |->
     IF procs[i].name = process_name /\ procs[i].vacancy > 0
     THEN [procs[i] EXCEPT !.vacancy = @ - 1] ELSE procs[i]]

\* cursor.rowcount of the conditional decrement
DecrementRowCount(procs, process_name) ==
  Cardinality({i \in DOMAIN procs :
                 procs[i].name = process_name /\ procs[i].vacancy > 0})

\* mutant of ChangedVacancy: a decrease below 0 is not applied at all
ChangedVacancyOrKept(vacancy, change) ==
  IF vacancy + change < 0 THEN vacancy ELSE vacancy + change

\* mutant of ChangedVacancy: the decrease is not held at 0
ChangedVacancyUnclamped(vacancy, change) == vacancy + change

\* CASE WHEN vacancy + ? < 0 THEN 0 ELSE vacancy + ? END, or vacancy + ?
ChangedVacancy(vacancy, change) ==
  IF change < 0
  THEN (IF vacancy + change < 0 THEN 0 ELSE vacancy + change)
  ELSE vacancy + change

\* mutant of Rollback: the failure path returns without rolling back
NoRollback(atBegin, inTransaction) == inTransaction

\* ROLLBACK: the tables as they were at BEGIN TRANSACTION
Rollback(atBegin, inTransaction) == atBegin

Failure(msg, procs, emps) ==
  [ok |-> FALSE, msg |-> msg, processes |-> procs, employees |-> emps]

Success(msg, procs, emps) ==
  [ok |-> TRUE, msg |-> msg, processes |-> procs, employees |-> emps]

\* mutant of EmailTaken: no stored email is found to conflict
EmailTakenNever(emps, email, exceptId) == FALSE

EmailTaken(emps, email, exceptId) ==
  \E i \in DOMAIN emps :
    Lower(emps[i].email) = Lower(email) /\ emps[i].id # exceptId

HasEmployee(emps, employee_id) ==
  \E i \in DOMAIN emps : emps[i].id = employee_id

EmployeeById(emps, employee_id) ==
  emps[CHOOSE i \in DOMAIN emps : emps[i].id = employee_id]

\* update_process_vacancy(process_name, change)
update_process_vacancy(procs, emps, process_name, change) ==
  IF RowsNamed(procs, process_name) = {}
  THEN Failure("no rows", procs, emps)
  ELSE Success("updated",
         [i \in DOMAIN procs |->
            IF procs[i].name = process_name
            THEN [procs[i] EXCEPT !.vacancy = ChangedVacancy(@, change)]
            ELSE procs[i]],
         emps)

\* mutant of add_employee: the vacancy of the process is not looked at
add_employee_any_vacancy(procs, emps, newId, name, email, potential, communication, process_name) ==
  LET pid == IF RowsNamed(procs, process_name) = {} THEN NoId
             ELSE FetchOne(procs, process_name).id
  IN IF EmailTaken(emps, NormalizeEmail(email), NoId)
     THEN Failure("Email already exists in the database", procs, emps)
     ELSE Success("Employee added successfully", procs,
                  Append(emps,
                         [id |-> newId, name |-> name,
                          email |-> NormalizeEmail(email),
                          potential |-> potential,
                          communication |-> communication,
                          process_id |-> pid,
                          process_name |-> process_name]))

\* add_employee(name, email, potential, communication, process_name=None);
\* newId is the AUTOINCREMENT id the INSERT would get
add_employee(procs, emps, newId, name, email, potential, communication, process_name) ==
  LET mail == NormalizeEmail(email)
      row(pid) == [id |-> newId, name |-> name, email |-> mail,
                   potential |-> potential, communication |-> communication,
                   process_id |-> pid, process_name |-> process_name]
  IN IF EmailTaken(emps, mail, NoId)
     THEN Failure("Email already exists in the database", procs, emps)
     ELSE IF ~Truthy(process_name)
     THEN Success("Employee added successfully", procs,
                  Append(emps, row(NoId)))
     ELSE IF RowsNamed(procs, process_name) = {}
     THEN Failure("Process not found", procs, emps)
     ELSE IF FetchOne(procs, process_name).vacancy <= 0
     THEN Failure("No vacancy available", procs, emps)
     ELSE IF DecrementRowCount(procs, process_name) = 0
     THEN Failure("Failed to update vacancy",
                  Rollback(procs, ConditionalDecrement(procs, process_name)),
                  emps)
     ELSE Success("Employee added successfully",
                  ConditionalDecrement(procs, process_name),
                  Append(emps, row(FetchOne(procs, process_name).id)))

\* mutant of update_employee: the new process is not looked up
update_employee_unchecked(procs, emps, employee_id, name, email, potential, communication, process_name) ==
  IF ~HasEmployee(emps, employee_id)
  THEN Failure("Employee not found", procs, emps)
  ELSE Success("Employee updated successfully", procs,
               [i \in DOMAIN emps |->
                  IF emps[i].id = employee_id
                  THEN [emps[i] EXCEPT !.process_id = NoId,
                                       !.process_name = process_name]
                  ELSE emps[i]])

\* update_employee(employee_id, name, email, potential, communication,
\*                 process_name=None)
update_employee(procs, emps, employee_id, name, email, potential, communication, process_name) ==
  LET mail == NormalizeEmail(email)
      old_process == EmployeeById(emps, employee_id).process_name
      released == IF Truthy(old_process)
                  THEN IncrementVacancy(procs, old_process) ELSE procs
      written(pid) ==
        [i \in DOMAIN emps |->
           IF emps[i].id = employee_id
           THEN [id |-> employee_id, name |-> name, email |-> mail,
                 potential |-> potential, communication |-> communication,
                 process_id |-> pid, process_name |-> process_name]
           ELSE emps[i]]
  IN IF EmailTaken(emps, mail, employee_id)
     THEN Failure("Email already exists for another employee", procs, emps)
     ELSE IF ~HasEmployee(emps, employee_id)
     THEN Failure("Employee not found", procs, emps)
     ELSE IF old_process = process_name
     THEN Success("Employee updated successfully", procs,
                  written(IF Truthy(process_name)
                             /\ RowsNamed(procs, process_name) # {}
                          THEN FetchOne(procs, process_name).id ELSE NoId))
     ELSE IF ~Truthy(process_name)
     THEN Success("Employee updated successfully", released, written(NoId))
     ELSE IF RowsNamed(released, process_name) = {}
     THEN Failure("Process not found", Rollback(procs, released), emps)
     ELSE IF FetchOne(released, process_name).vacancy <= 0
     THEN Failure("No vacancy available", Rollback(procs, released), emps)
     ELSE IF DecrementRowCount(released, process_name) = 0
     THEN Failure("Failed to update vacancy", Rollback(procs, released), emps)
     ELSE Success("Employee updated successfully",
                  ConditionalDecrement(released, process_name),
                  written(FetchOne(released, process_name).id))

\* delete_employee(employee_id)
delete_employee(procs, emps, employee_id) ==
  IF ~HasEmployee(emps, employee_id)
  THEN Failure("Employee not found", procs, emps)
  ELSE LET gone == EmployeeById(emps, employee_id)
           kept == SelectSeq(emps,
                     LAMBDA e : e.id # employee_id
                                /\ Lower(e.email) # Lower(gone.email))
       IN Success("Employee deleted",
                  IF Truthy(gone.process_name)
                  THEN IncrementVacancy(procs, gone.process_name) ELSE procs,
                  kept)

\* SELECT ... FROM processes ORDER BY vacancy DESC, process_name ASC
\* (load_processes_from_db on a store that already holds processes)
load_processes_from_db(procs) ==
  SortRows([i \in DOMAIN procs |->
              [name |-> procs[i].name, potential |-> procs[i].potential,
               communication |-> procs[i].communication,
               vacancy |-> procs[i].vacancy]])

\* ---------------------------------------------------------- state machine
\* sample_processes of init_db
SampleProcesses ==
  <<[name |-> "Sales Support", potential |-> "Sales",
     communication |-> "Good", vacancy |-> 5],
    [name |-> "Customer Service", potential |-> "Service",
     communication |-> "Very Good", vacancy |-> 3],
    [name |-> "Technical Support", potential |-> "Support",
     communication |-> "Good", vacancy |-> 4],
    [name |-> "Account Management", potential |-> "Consultation",
     communication |-> "Excellent", vacancy |-> 2],
    [name |-> "TVS CC", potential |-> "Service",
     communication |-> "Good", vacancy |-> 20],
    [name |-> "CW Massbrand", potential |-> "Consultation",
     communication |-> "Excellent", vacancy |-> 9],
    [name |-> "CW Inbound", potential |-> "Service",
     communication |-> "Good", vacancy |-> 8],
    [name |-> "Bgauss CC", potential |-> "Service",
     communication |-> "Good", vacancy |-> 3],
    [name |-> "Ather CC", potential |-> "Service",
     communication |-> "Good", vacancy |-> 2]>>

\* INSERT INTO processes (process_name, potential, communication, vacancy)
\* for each row of a table, the ids given by AUTOINCREMENT
InsertedRows(process_data, firstId) ==
  [i \in DOMAIN process_data |->
     [id |-> firstId + i - 1, name |-> process_data[i].name,
      potential |-> process_data[i].potential,
      communication |-> process_data[i].communication,
      vacancy |-> process_data[i].vacancy]]

\* FOREIGN KEY (process_id) REFERENCES processes (id), foreign_keys = ON:
\* some employee row refers to a row of processes
Referenced(procs, emps) ==
  \E j \in DOMAIN emps, i \in DOMAIN procs :
    emps[j].process_id # NoId /\ emps[j].process_id = procs[i].id

\* whether DELETE FROM processes passes the foreign key check
ForeignKeyHolds(procs, emps) == ~Referenced(procs, emps)

\* save_processes_to_db(process_data): one transaction, DELETE then INSERTs
save_processes_to_db(procs, emps, firstId, process_data) ==
  IF ~ForeignKeyHolds(procs, emps)
  THEN [ok |-> FALSE, processes |-> procs, nextProcessId |-> firstId]
  ELSE [ok |-> TRUE, processes |-> InsertedRows(process_data, firstId),
        nextProcessId |-> firstId + Len(process_data)]

\* init_db(): outside the cloud the database file is removed; the sample
\* processes are inserted when the table is empty
init_db(store, cloud) ==
  LET kept == IF cloud THEN store
              ELSE [processes |-> <<>>, employees |-> <<>>,
                    nextEmployeeId |-> 1, nextProcessId |-> 1]
  IN IF kept.processes # <<>> THEN kept
     ELSE [kept EXCEPT
             !.processes = InsertedRows(SampleProcesses, kept.nextProcessId),
             !.nextProcessId = @ + Len(SampleProcesses)]

\* data.to_excel(buffer, index=False), read back by pd.read_excel
save_data(data) ==
  [columns |-> required_columns,
   rows |-> [k \in DOMAIN data |->
               [name |-> data[k].name, potential |-> data[k].potential,
                communication |-> data[k].communication,
                vacancy |-> data[k].vacancy, numeric |-> TRUE]]]

VARIABLES
  processes,       \* table processes, rows in rowid order
  employees,       \* table employees, rows in rowid order
  nextEmployeeId,  \* the id the next INSERT INTO employees gets
  session,         \* st.session_state.process_data of each session
  pc,              \* where each session's form handler stands
  call,            \* the handler's locals between its store calls
  outcome,         \* what the handler of each session last ended with
  lastOp,          \* observer: the latest allocation or reassignment, until
                   \* another call changes the store
  query,           \* the arguments of a call of find_matching_process
  matches,         \* what that call returned
  is_cloud,        \* database.is_cloud, fixed when the module is imported
  nextProcessId    \* the id the next INSERT INTO processes gets

vars == <<processes, employees, nextEmployeeId, session, pc, call, outcome,
          lastOp, query, matches, is_cloud, nextProcessId>>

storeVars == <<processes, employees, nextEmployeeId, lastOp>>
formVars == <<session, pc, call, outcome>>
matchVars == <<query, matches>>
envVars == <<is_cloud, nextProcessId>>

\* the (potential, communication) pairs of the model's processes: under a
\* Service request Alpha is an exact or a fallback match, Beta may be none
Attributes(name) ==
  IF name = "Alpha"
  THEN {<<"Service", "Good">>, <<"Service", "Excellent">>}
  ELSE {<<"Service", "Good">>, <<"Sales", "Good">>}

ProcessRow(id, name) ==
  {[id |-> id, name |-> name, potential |-> a[1], communication |-> a[2],
    vacancy |-> v] : a \in Attributes(name), v \in 0..MaxVacancy}

\* the stored catalogs the form handler is run against: one or two processes
AppCatalogs ==
  {<<a>> : a \in ProcessRow(1, "Alpha")}
    \cup {<<a, b>> : a \in ProcessRow(1, "Alpha"), b \in ProcessRow(2, "Beta")}

\* the stored catalogs the store calls are run against: the store calls read
\* only the name and the vacancy of a process
StoreCatalogs ==
  {c \in AppCatalogs :
     \A i \in DOMAIN c : /\ c[i].potential = "Service"
                          /\ c[i].communication = "Good"
                          /\ c[i].vacancy <= MaxStoreVacancy}

\* the tables the matcher is asked about: up to three rows, not in name order
MatchNames == <<"Beta", "Alpha", "Gamma">>

MatchRow(name) ==
  {[name |-> name, potential |-> p, communication |-> c, vacancy |-> v] :
     p \in Potentials, c \in Communications, v \in 0..MaxVacancy}

MatchCatalogs ==
  UNION {{t \in [1..n -> UNION {MatchRow(MatchNames[i]) : i \in 1..n}] :
            \A i \in 1..n : t[i].name = MatchNames[i]} :
         n \in 0..Len(MatchNames)}

\* the requests the matcher is asked with, padded ones among them
RequestPotentials == {"Service ", "Sales"}
RequestCommunications == {" Good", "Excellent"}

NoQuery == [data |-> <<>>, potential |-> None, communication |-> None,
            asked |-> FALSE]

NoCall == [employee |-> None, potential |-> None, communication |-> None,
           process |-> None, delta |-> 0]

NoOutcome == [status |-> "none", process |-> None]

NoOp == [stage |-> "none", id |-> NoId, from |-> None, process |-> None,
         before |-> <<>>]

Start(catalogs) ==
  /\ processes \in catalogs
  /\ employees = <<>>
  /\ nextEmployeeId = 1
  /\ session = [s \in Sessions |-> load_processes_from_db(processes)]
  /\ pc = [s \in Sessions |-> "idle"]
  /\ call = [s \in Sessions |-> NoCall]
  /\ outcome = [s \in Sessions |-> NoOutcome]
  /\ lastOp = NoOp
  /\ matches = <<>>
  /\ nextProcessId = Len(processes) + 1

Init == Start(StoreCatalogs) /\ query = NoQuery /\ is_cloud = TRUE

AppInit == Start(AppCatalogs) /\ query = NoQuery /\ is_cloud = TRUE

InFlight == Cardinality({s \in Sessions : pc[s] # "idle"})

\* the row the handler takes as the matched process: the first of the ranking
ChosenRow(matching_process) == Head(matching_process)

\* process_data[process_data['Process_Name'] == process_name].index[0]
FirstIndexNamed(process_data, process_name) ==
  Min({i \in DOMAIN process_data : process_data[i].name = process_name})

\* app.py 186-201: the match and the decrement of the session's own catalog
SubmitMatch(s, employee_name, potential, communication) ==
  LET matching_process ==
        find_matching_process(session[s], potential, communication)
      process_name == ChosenRow(matching_process).name
      process_idx == FirstIndexNamed(session[s], process_name)
  IN /\ pc[s] = "idle"
     /\ nextEmployeeId + InFlight <= MaxEmployees
     /\ matching_process # <<>>
     /\ session' = [session EXCEPT ![s][process_idx].vacancy = @ - 1]
     /\ call' = [call EXCEPT ![s] =
                   [employee |-> employee_name, potential |-> potential,
                    communication |-> communication,
                    process |-> process_name, delta |-> 0]]
     /\ pc' = [pc EXCEPT ![s] = "update_process_vacancy"]
     /\ UNCHANGED <<processes, employees, nextEmployeeId, outcome, lastOp>>
     /\ UNCHANGED <<matchVars, envVars>>

\* app.py 211-214: db.add_employee(employee_name, potential, communication)
\* lacks the required fourth positional argument: Python raises TypeError
\* before add_employee runs, and the script run ends there
SubmitNoMatch(s, employee_name, potential, communication) ==
  /\ pc[s] = "idle"
  /\ find_matching_process(session[s], potential, communication) = <<>>
  /\ outcome' = [outcome EXCEPT ![s] =
                   [status |-> "TypeError", process |-> None]]
  /\ UNCHANGED <<processes, employees, nextEmployeeId, session, pc, call,
                 lastOp>>
  /\ UNCHANGED <<matchVars, envVars>>

\* app.py 204: db.update_process_vacancy(process_name, -1), result unused
HandlerUpdateVacancy(s) ==
  LET r == update_process_vacancy(processes, employees, call[s].process, -1)
      before == FetchOne(processes, call[s].process).vacancy
      after == FetchOne(r.processes, call[s].process).vacancy
  IN /\ pc[s] = "update_process_vacancy"
     /\ processes' = r.processes
     /\ call' = [call EXCEPT ![s].delta =
                   IF RowsNamed(processes, call[s].process) = {} THEN 0
                   ELSE before - after]
     /\ pc' = [pc EXCEPT ![s] = "add_employee"]
     /\ lastOp' = IF r.processes = processes THEN lastOp ELSE NoOp
     /\ UNCHANGED <<employees, nextEmployeeId, session, outcome>>
     /\ UNCHANGED <<matchVars, envVars>>

\* app.py 207: db.add_employee(employee_name, potential, communication,
\* process_name) binds email=potential, potential=communication,
\* communication=process_name and leaves process_name=None; result unused
HandlerAddEmployee(s) ==
  LET r == add_employee(processes, employees, nextEmployeeId,
                        call[s].employee, call[s].potential,
                        call[s].communication, call[s].process, None)
  IN /\ pc[s] = "add_employee"
     /\ processes' = r.processes
     /\ employees' = r.employees
     /\ nextEmployeeId' = IF r.ok THEN nextEmployeeId + 1 ELSE nextEmployeeId
     /\ outcome' = [outcome EXCEPT ![s] =
                      [status |-> "assigned", process |-> call[s].process]]
     /\ lastOp' =
          [stage |-> "allocated",
           id |-> IF r.ok THEN nextEmployeeId ELSE NoId,
           from |-> None, process |-> call[s].process,
           before |-> [i \in DOMAIN processes |->
                         IF processes[i].name = call[s].process
                         THEN [processes[i] EXCEPT
                                 !.vacancy = @ + call[s].delta]
                         ELSE processes[i]]]
     /\ call' = [call EXCEPT ![s] = NoCall]
     /\ pc' = [pc EXCEPT ![s] = "idle"]
     /\ UNCHANGED <<session, matchVars, envVars>>

\* a direct call of add_employee with a process (or none) given
AddEmployee(name, email, potential, communication, process_name) ==
  LET r == add_employee(processes, employees, nextEmployeeId, name, email,
                        potential, communication, process_name)
  IN /\ nextEmployeeId + InFlight <= MaxEmployees
     /\ processes' = r.processes
     /\ employees' = r.employees
     /\ nextEmployeeId' = IF r.ok THEN nextEmployeeId + 1 ELSE nextEmployeeId
     /\ lastOp' =
          IF r.ok THEN NoOp ELSE lastOp
     /\ UNCHANGED <<formVars, matchVars, envVars>>

UpdateEmployee(employee_id, name, email, potential, communication, process_name) ==
  LET r == update_employee(processes, employees, employee_id, name, email,
                           potential, communication, process_name)
      old_process == EmployeeById(employees, employee_id).process_name
      seen(stage) == [stage |-> stage, id |-> employee_id,
                      from |-> old_process, process |-> process_name,
                      before |-> <<>>]
  IN /\ processes' = r.processes
     /\ employees' = r.employees
     /\ lastOp' =
          IF r.ok
          THEN (IF old_process # process_name THEN seen("reassigned") ELSE NoOp)
          ELSE IF r.msg \in {"Process not found", "No vacancy available"}
          THEN seen("reassign_failed")
          ELSE lastOp
     /\ UNCHANGED <<nextEmployeeId, formVars, matchVars, envVars>>

DeleteEmployee(employee_id) ==
  LET r == delete_employee(processes, employees, employee_id)
  IN /\ processes' = r.processes
     /\ employees' = r.employees
     /\ lastOp' =
          IF ~r.ok THEN lastOp
          ELSE IF lastOp.stage = "allocated" /\ lastOp.id = employee_id
          THEN [lastOp EXCEPT !.stage = "released"]
          ELSE NoOp
     /\ UNCHANGED <<nextEmployeeId, formVars, matchVars, envVars>>

\* a manual vacancy edit; the edit is kept within the model's vacancy range
UpdateProcessVacancy(process_name, change) ==
  LET r == update_process_vacancy(processes, employees, process_name, change)
  IN /\ \A i \in DOMAIN r.processes :
          r.processes[i].vacancy <= MaxStoreVacancy
     /\ processes' = r.processes
     /\ lastOp' = IF r.processes = processes THEN lastOp ELSE NoOp
     /\ UNCHANGED <<employees, nextEmployeeId, formVars, matchVars, envVars>>

\* the ids a caller may pass: those of the stored employees and one that
\* no employee has
EmployeeIds == {employees[i].id : i \in DOMAIN employees} \cup {nextEmployeeId}

Next ==
  \/ \E f \in Profiles, n \in ProcessNames \cup {None, UnknownProcess} :
       AddEmployee(f.name, f.email, f.potential, f.communication, n)
  \/ \E id \in EmployeeIds, f \in Profiles,
        n \in ProcessNames \cup {None, UnknownProcess} :
       UpdateEmployee(id, f.name, f.email, f.potential, f.communication, n)
  \/ \E id \in EmployeeIds : DeleteEmployee(id)
  \/ \E n \in ProcessNames \cup {UnknownProcess}, ch \in Changes :
       UpdateProcessVacancy(n, ch)

\* the calls of database.py, each one transaction
Spec == Init /\ [][Next]_vars

AppNext ==
  \/ \E s \in Sessions, e \in EmployeeNames, p \in Potentials,
        c \in Communications : SubmitMatch(s, e, p, c)
  \/ \E s \in Sessions, e \in EmployeeNames, p \in Potentials,
        c \in Communications : SubmitNoMatch(s, e, p, c)
  \/ \E s \in Sessions : HandlerUpdateVacancy(s)
  \/ \E s \in Sessions : HandlerAddEmployee(s)
  \/ \E id \in EmployeeIds : DeleteEmployee(id)

\* the form handler of app.py in two sessions, and delete_employee
AppSpec == AppInit /\ [][AppNext]_vars

\* one call of find_matching_process(process_data, potential, communication)
FindMatch ==
  /\ ~query.asked
  /\ matches' = find_matching_process(query.data, query.potential,
                                      query.communication)
  /\ query' = [query EXCEPT !.asked = TRUE]
  /\ UNCHANGED <<storeVars, formVars, envVars>>

MatchInit ==
  /\ Start({c \in StoreCatalogs : Len(c) = 1 /\ c[1].vacancy = 0})
  /\ is_cloud = TRUE
  /\ query \in {[data |-> d, potential |-> p, communication |-> c,
                  asked |-> FALSE] :
                   d \in MatchCatalogs, p \in RequestPotentials,
                   c \in RequestCommunications}

MatchNext == FindMatch

\* the matcher as a function of its arguments
MatchSpec == MatchInit /\ [][MatchNext]_vars

\* the orders a table of the same rows can come in
Reorderings(rows) ==
  {[k \in DOMAIN rows |-> rows[f[k]]] :
     f \in {g \in [DOMAIN rows -> DOMAIN rows] :
              \A a, b \in DOMAIN rows : a # b => g[a] # g[b]}}

\* INSERT INTO processes: the rows of a table with their AUTOINCREMENT ids
StoredRows(process_data) ==
  [i \in DOMAIN process_data |->
     [id |-> i, name |-> process_data[i].name,
      potential |-> process_data[i].potential,
      communication |-> process_data[i].communication,
      vacancy |-> process_data[i].vacancy]]

\* database.get_process_suggestions: SELECT ... WHERE potential = ? AND
\* communication = ? AND vacancy > 0 ORDER BY vacancy DESC; rows of equal
\* vacancy come in any order
db_get_process_suggestions(procs, potential, communication) ==
  LET found == SelectSeq(load_processes_from_db(procs),
                 LAMBDA r : /\ r.potential = potential
                            /\ r.communication = communication
                            /\ r.vacancy > 0)
  IN {d \in Reorderings(found) :
        \A k \in 1..(Len(d) - 1) : d[k].vacancy >= d[k + 1].vacancy}

\* one call of matching_engine.get_process_suggestions
Suggest ==
  /\ ~query.asked
  /\ query.by = "matching_engine"
  /\ matches' = get_process_suggestions(query.data, query.potential,
                                        query.communication)
  /\ query' = [query EXCEPT !.asked = TRUE]
  /\ UNCHANGED <<storeVars, formVars, envVars>>

\* one call of database.get_process_suggestions
StoreSuggest ==
  /\ ~query.asked
  /\ query.by = "database"
  /\ matches' \in db_get_process_suggestions(processes, query.potential,
                                              query.communication)
  /\ query' = [query EXCEPT !.asked = TRUE]
  /\ UNCHANGED <<storeVars, formVars, envVars>>

SuggestInit ==
  /\ query \in {[data |-> d, potential |-> p, communication |-> c,
                  asked |-> FALSE, by |-> m] :
                   d \in MatchCatalogs, p \in RequestPotentials,
                   c \in RequestCommunications,
                   m \in {"matching_engine", "database"}}
  /\ Start({StoredRows(query.data)})
  /\ is_cloud = TRUE

SuggestNext == Suggest \/ StoreSuggest

\* the two functions named get_process_suggestions, each on a stored table
SuggestSpec == SuggestInit /\ [][SuggestNext]_vars

\* the uploaded tables: up to two rows, cells padded, out of the value sets,
\* negative or no number (numeric = FALSE: text pd.to_numeric cannot
\* convert) among them, or one required column missing
FileRows ==
  {[name |-> n, potential |-> p, communication |-> c, vacancy |-> v,
    numeric |-> TRUE] :
     n \in {"Alpha", " Alpha"}, p \in {"Sales", "Service ", "Bogus"},
     c \in {"Good", " Good", "Loud"}, v \in -1..MaxStoreVacancy}
    \cup {[name |-> "Alpha", potential |-> p, communication |-> "Good",
           vacancy |-> 0, numeric |-> FALSE] : p \in {"Sales", "Bogus"}}

Files ==
  {[columns |-> required_columns, rows |-> t] :
     t \in {<<>>} \cup {<<a>> : a \in FileRows}
           \cup {<<a, b>> : a \in FileRows, b \in FileRows}}
    \cup {[columns |-> required_columns \ {c},
           rows |-> <<[name |-> "Alpha", potential |-> "Sales",
                       communication |-> "Good", vacancy |-> 1,
                       numeric |-> TRUE]>>] :
            c \in required_columns}

\* one call of load_data of src/data_handler.py
LoadData ==
  /\ ~query.asked
  /\ query.by = "data_handler"
  /\ matches' = load_data(query.data)
  /\ query' = [query EXCEPT !.asked = TRUE]
  /\ UNCHANGED <<storeVars, formVars, envVars>>

\* one call of load_data of ProcessPotentialTracker-main/data_handler.py
MainLoadData ==
  /\ ~query.asked
  /\ query.by = "main_data_handler"
  /\ matches' = main_load_data(query.data)
  /\ query' = [query EXCEPT !.asked = TRUE]
  /\ UNCHANGED <<storeVars, formVars, envVars>>

ValidateInit ==
  /\ Start({c \in StoreCatalogs : Len(c) = 1 /\ c[1].vacancy = 0})
  /\ is_cloud = TRUE
  /\ query \in {[data |-> f, potential |-> None, communication |-> None,
                  asked |-> FALSE, by |-> m] :
                   f \in Files, m \in {"data_handler", "main_data_handler"}}

ValidateNext == LoadData \/ MainLoadData

\* the two validators, each as a function of the uploaded table
ValidateSpec == ValidateInit /\ [][ValidateNext]_vars

\* ----------------------------------------------------------------- import
\* the validated catalogs save_processes_to_db is called with
ImportTables ==
  {<<>>} \cup {load_processes_from_db(c) : c \in StoreCatalogs}

\* the files the upload tab is given
UploadFiles ==
  {f \in Files :
     /\ Len(f.rows) <= 1
     /\ \A k \in DOMAIN f.rows :
          /\ f.rows[k].name = "Alpha"
          /\ f.rows[k].potential \in {"Sales", "Bogus"}
          /\ f.rows[k].communication = "Good"
          /\ f.rows[k].vacancy = 0 \/ f.columns # required_columns}

SaveSeen(ok, process_data) ==
  [stage |-> "saved", ok |-> ok, id |-> NoId, from |-> None,
   process |-> None, before |-> process_data]

\* mutant of UploadedCatalog: the session takes what the validator got to
UploadedCatalogPartial(current, r) == r.data

\* st.session_state.process_data = load_data(uploaded_file): no assignment
\* when load_data raises
UploadedCatalog(current, r) == IF r.ok THEN r.data ELSE current

\* a direct call of save_processes_to_db(process_data)
SaveProcessesToDb(process_data) ==
  LET r == save_processes_to_db(processes, employees, nextProcessId,
                                process_data)
  IN /\ nextProcessId <= MaxProcessId
     /\ processes' = r.processes
     /\ nextProcessId' = r.nextProcessId
     /\ lastOp' = SaveSeen(r.ok, process_data)
     /\ UNCHANGED <<employees, nextEmployeeId, formVars, matchVars, is_cloud>>

\* app.py 47-56: the upload tab of one session
Upload(s, file) ==
  LET r == load_data(file)
      saved == save_processes_to_db(processes, employees, nextProcessId,
                                    r.data)
  IN /\ pc[s] = "idle"
     /\ nextProcessId <= MaxProcessId
     /\ session' = [session EXCEPT ![s] = UploadedCatalog(@, r)]
     /\ processes' = IF r.ok THEN saved.processes ELSE processes
     /\ nextProcessId' = IF r.ok THEN saved.nextProcessId ELSE nextProcessId
     /\ lastOp' = IF r.ok THEN SaveSeen(saved.ok, r.data) ELSE lastOp
     /\ outcome' = [outcome EXCEPT ![s] =
                      [status |-> IF r.ok THEN "uploaded" ELSE "upload_error",
                       process |-> None]]
     /\ UNCHANGED <<employees, nextEmployeeId, pc, call, matchVars, is_cloud>>

\* a call of load_processes_from_db() by one session: init_db(), then the
\* SELECT
LoadProcessesFromDb(s) ==
  LET store == init_db([processes |-> processes, employees |-> employees,
                        nextEmployeeId |-> nextEmployeeId,
                        nextProcessId |-> nextProcessId], is_cloud)
      loaded == load_processes_from_db(store.processes)
  IN /\ pc[s] = "idle"
     /\ processes' = store.processes
     /\ employees' = store.employees
     /\ nextEmployeeId' = store.nextEmployeeId
     /\ nextProcessId' = store.nextProcessId
     /\ session' = [session EXCEPT ![s] = loaded]
     /\ lastOp' = IF lastOp.stage = "saved" /\ lastOp.ok
                  THEN [lastOp EXCEPT !.stage = "reloaded", !.ok = TRUE]
                         @@ [loaded |-> loaded]
                  ELSE NoOp
     /\ UNCHANGED <<pc, call, outcome, matchVars, is_cloud>>

\* the store after both sessions have loaded it, in the cloud or outside
ImportInit ==
  /\ Start(StoreCatalogs)
  /\ query = NoQuery
  /\ is_cloud \in BOOLEAN

ImportNext ==
  \/ \E f \in Profiles, n \in ProcessNames \cup {None} :
       AddEmployee(f.name, f.email, f.potential, f.communication, n)
  \/ \E id \in EmployeeIds : DeleteEmployee(id)
  \/ \E t \in ImportTables : SaveProcessesToDb(t)
  \/ \E s \in Sessions : LoadProcessesFromDb(s)

\* save_processes_to_db and load_processes_from_db, with the store calls
\* that assign and release employees
ImportSpec == ImportInit /\ [][ImportNext]_vars

UploadNext ==
  \/ \E f \in Profiles, n \in ProcessNames \cup {None} :
       AddEmployee(f.name, f.email, f.potential, f.communication, n)
  \/ \E id \in EmployeeIds : DeleteEmployee(id)
  \/ \E s \in Sessions, f \in UploadFiles : Upload(s, f)

\* the upload tab of app.py in two sessions, with the store calls that
\* assign and release employees
UploadSpec == Init /\ [][UploadNext]_vars

\* ---------------------------------------------- import against allocation
\* save_processes_to_db and add_employee run statement by statement on two
\* connections of one database file.  call[s] is the connection of session s:
\* the lock it holds on the file (none, shared, reserved), the call's
\* argument, and the tables as its open transaction sees them.  VACUUM
\* (purge_deleted_emails) changes no row and is left out.
Connection(input) ==
  [input |-> input, lock |-> "none", processes |-> <<>>, employees |-> <<>>,
   process_id |-> NoId]

Other(s) == CHOOSE t \in Sessions : t # s

\* the RESERVED lock a write statement takes is held by one connection
ReservedFree(s) == call[Other(s)].lock # "reserved"

\* the EXCLUSIVE lock of COMMIT is given once no other connection reads
ReadersGone(s) == call[Other(s)].lock = "none"

\* the call of session s returns: its connection is closed, what it had not
\* committed is rolled back
Returned(s, status) ==
  /\ pc' = [pc EXCEPT ![s] = "done"]
  /\ outcome' = [outcome EXCEPT ![s] = [status |-> status, process |-> None]]
  /\ call' = [call EXCEPT ![s].lock = "none"]

\* email TEXT NOT NULL UNIQUE: the stored emails are all stripped and in
\* lower case, so the constraint refuses what the lower-case comparison finds
UniqueEmailViolated(emps, email, exceptId) == EmailTaken(emps, email, exceptId)

\* conn.execute("DELETE FROM processes"), the implicit BEGIN before it
SaveDelete(s) ==
  /\ pc[s] = "save_delete"
  /\ ReservedFree(s)
  /\ IF ForeignKeyHolds(processes, employees)
     THEN /\ call' = [call EXCEPT ![s].lock = "reserved",
                                  ![s].processes = <<>>,
                                  ![s].employees = employees]
          /\ pc' = [pc EXCEPT ![s] = IF call[s].input = <<>>
                                     THEN "save_commit" ELSE "save_insert"]
          /\ UNCHANGED outcome
     ELSE Returned(s, "save_refused")
  /\ UNCHANGED <<storeVars, session, matchVars, envVars>>

\* one conn.execute("INSERT INTO processes ...") of the loop
SaveInsert(s) ==
  LET k == Len(call[s].processes) + 1
      rows == InsertedRows(call[s].input, nextProcessId)
  IN /\ pc[s] = "save_insert"
     /\ call' = [call EXCEPT ![s].processes = Append(@, rows[k])]
     /\ pc' = [pc EXCEPT ![s] = IF k = Len(rows)
                                THEN "save_commit" ELSE "save_insert"]
     /\ UNCHANGED <<storeVars, session, outcome, matchVars, envVars>>

\* conn.commit() of save_processes_to_db
SaveCommit(s) ==
  /\ pc[s] = "save_commit"
  /\ ReadersGone(s)
  /\ processes' = call[s].processes
  /\ nextProcessId' = nextProcessId + Len(call[s].processes)
  /\ Returned(s, "saved")
  /\ UNCHANGED <<employees, nextEmployeeId, lastOp, session, matchVars,
                 is_cloud>>

\* sqlite3.OperationalError "database is locked" in save_processes_to_db:
\* the wait for the other connection's lock has timed out
SaveLocked(s) ==
  /\ \/ pc[s] = "save_delete" /\ ~ReservedFree(s)
     \/ pc[s] = "save_commit" /\ ~ReadersGone(s)
  /\ Returned(s, "save_locked")
  /\ UNCHANGED <<storeVars, session, matchVars, envVars>>

\* BEGIN TRANSACTION and SELECT COUNT(*) FROM employees WHERE LOWER(email) ...
AddCheckEmail(s) ==
  LET a == call[s].input
  IN /\ pc[s] = "add_email"
     /\ IF EmailTaken(employees, NormalizeEmail(a.email), NoId)
        THEN Returned(s, "add_rejected")
        ELSE /\ call' = [call EXCEPT ![s].lock = "shared",
                                     ![s].processes = processes,
                                     ![s].employees = employees]
             /\ pc' = [pc EXCEPT ![s] = IF Truthy(a.process_name)
                                        THEN "add_select" ELSE "add_insert"]
             /\ UNCHANGED outcome
     /\ UNCHANGED <<storeVars, session, matchVars, envVars>>

\* SELECT id, vacancy FROM processes WHERE process_name = ?
AddSelect(s) ==
  LET a == call[s].input
      procs == call[s].processes
  IN /\ pc[s] = "add_select"
     /\ IF \/ RowsNamed(procs, a.process_name) = {}
           \/ FetchOne(procs, a.process_name).vacancy <= 0
        THEN Returned(s, "add_rejected")
        ELSE /\ call' = [call EXCEPT ![s].process_id =
                           FetchOne(procs, a.process_name).id]
             /\ pc' = [pc EXCEPT ![s] = "add_update"]
             /\ UNCHANGED outcome
     /\ UNCHANGED <<storeVars, session, matchVars, envVars>>

\* UPDATE processes SET vacancy = vacancy - 1 WHERE ... AND vacancy > 0:
\* a connection that reads and finds the RESERVED lock taken is refused at
\* once
AddUpdate(s) ==
  LET a == call[s].input
      procs == call[s].processes
  IN /\ pc[s] = "add_update"
     /\ IF ~ReservedFree(s)
        THEN Returned(s, "add_locked")
        ELSE IF DecrementRowCount(procs, a.process_name) = 0
        THEN Returned(s, "add_rejected")
        ELSE /\ call' = [call EXCEPT ![s].lock = "reserved",
                           ![s].processes =
                              ConditionalDecrement(procs, a.process_name)]
             /\ pc' = [pc EXCEPT ![s] = "add_insert"]
             /\ UNCHANGED outcome
     /\ UNCHANGED <<storeVars, session, matchVars, envVars>>

\* INSERT INTO employees (...)
AddInsert(s) ==
  LET a == call[s].input
      row == [id |-> nextEmployeeId, name |-> a.name,
              email |-> NormalizeEmail(a.email), potential |-> a.potential,
              communication |-> a.communication,
              process_id |-> call[s].process_id,
              process_name |-> a.process_name]
  IN /\ pc[s] = "add_insert"
     /\ IF ~ReservedFree(s)
        THEN Returned(s, "add_locked")
        ELSE IF UniqueEmailViolated(call[s].employees, row.email, NoId)
        THEN Returned(s, "add_error")
        ELSE /\ call' = [call EXCEPT ![s].lock = "reserved",
                                     ![s].employees = Append(@, row)]
             /\ pc' = [pc EXCEPT ![s] = "add_commit"]
             /\ UNCHANGED outcome
     /\ UNCHANGED <<storeVars, session, matchVars, envVars>>

\* cursor.execute("COMMIT") of add_employee
AddCommit(s) ==
  /\ pc[s] = "add_commit"
  /\ ReadersGone(s)
  /\ processes' = call[s].processes
  /\ employees' = call[s].employees
  /\ nextEmployeeId' = nextEmployeeId + 1
  /\ Returned(s, "added")
  /\ UNCHANGED <<lastOp, session, matchVars, envVars>>

\* the employees table the race starts from: empty, or Bob unassigned
RaceEmployees ==
  {<<>>,
   <<[id |-> 1, name |-> "Bob", email |-> "bob@x.org",
      potential |-> "Service", communication |-> "Excellent",
      process_id |-> NoId, process_name |-> None]>>}

\* observer: the store as the two calls found it
RaceSeen(procs, emps) ==
  [stage |-> "racing", id |-> NoId, from |-> None, process |-> None,
   before |-> procs, employees |-> emps]

\* session Min(Sessions) imports a table while the other adds an employee
ImportRaceInit ==
  /\ processes \in StoreCatalogs
  /\ employees \in RaceEmployees
  /\ nextEmployeeId = Len(employees) + 1
  /\ nextProcessId = Len(processes) + 1
  /\ is_cloud = TRUE
  /\ session = [s \in Sessions |-> load_processes_from_db(processes)]
  /\ pc = [s \in Sessions |->
             IF s = Min(Sessions) THEN "save_delete" ELSE "add_email"]
  /\ \E t \in ImportTables, f \in Profiles, n \in ProcessNames \cup {None} :
       call = [s \in Sessions |->
                 IF s = Min(Sessions) THEN Connection(t)
                 ELSE Connection([name |-> f.name, email |-> f.email,
                                  potential |-> f.potential,
                                  communication |-> f.communication,
                                  process_name |-> n])]
  /\ outcome = [s \in Sessions |-> NoOutcome]
  /\ lastOp = RaceSeen(processes, employees)
  /\ query = NoQuery
  /\ matches = <<>>

ImportRaceNext ==
  \/ \E s \in Sessions : SaveDelete(s)
  \/ \E s \in Sessions : SaveInsert(s)
  \/ \E s \in Sessions : SaveCommit(s)
  \/ \E s \in Sessions : SaveLocked(s)
  \/ \E s \in Sessions : AddCheckEmail(s)
  \/ \E s \in Sessions : AddSelect(s)
  \/ \E s \in Sessions : AddUpdate(s)
  \/ \E s \in Sessions : AddInsert(s)
  \/ \E s \in Sessions : AddCommit(s)

\* one save_processes_to_db call against one add_employee call
ImportRaceSpec == ImportRaceInit /\ [][ImportRaceNext]_vars

\* --------------------------------------------- two calls on one email
\* cursor.execute("BEGIN TRANSACTION") of update_employee and its two
\* SELECTs on employees
UpdCheckEmail(s) ==
  LET a == call[s].input
  IN /\ pc[s] = "upd_email"
     /\ IF \/ EmailTaken(employees, NormalizeEmail(a.email), a.employee_id)
           \/ ~HasEmployee(employees, a.employee_id)
        THEN Returned(s, "upd_rejected")
        ELSE /\ call' = [call EXCEPT ![s].lock = "shared",
                                     ![s].processes = processes,
                                     ![s].employees = employees]
             /\ pc' = [pc EXCEPT ![s] = "upd_write"]
             /\ UNCHANGED outcome
     /\ UNCHANGED <<storeVars, session, matchVars, envVars>>

\* the UPDATEs of update_employee, from the first one, which takes the
\* RESERVED lock, to the UPDATE employees
UpdWrite(s) ==
  LET a == call[s].input
      r == update_employee(call[s].processes, call[s].employees, a.employee_id, a.name, a.email, a.potential, a.communication, a.process_name)
      old_process == EmployeeById(call[s].employees, a.employee_id).process_name
      writes == r.ok \/ (old_process # a.process_name /\ Truthy(old_process))
  IN /\ pc[s] = "upd_write"
     /\ IF writes /\ ~ReservedFree(s)
        THEN Returned(s, "upd_locked")
        ELSE IF ~r.ok
        THEN Returned(s, "upd_rejected")
        ELSE /\ call' = [call EXCEPT ![s].lock = "reserved",
                                     ![s].processes = r.processes,
                                     ![s].employees = r.employees]
             /\ pc' = [pc EXCEPT ![s] = "upd_commit"]
             /\ UNCHANGED outcome
     /\ UNCHANGED <<storeVars, session, matchVars, envVars>>

\* cursor.execute("COMMIT") of update_employee
UpdCommit(s) ==
  /\ pc[s] = "upd_commit"
  /\ ReadersGone(s)
  /\ processes' = call[s].processes
  /\ employees' = call[s].employees
  /\ Returned(s, "updated")
  /\ UNCHANGED <<nextEmployeeId, lastOp, session, matchVars, envVars>>

\* mutant of CommitLocked: the failing call's writes stay in the tables
CommitLockedKeepsWrites(s) ==
  /\ pc[s] \in {"add_commit", "upd_commit"}
  /\ ~ReadersGone(s)
  /\ processes' = call[s].processes
  /\ employees' = call[s].employees
  /\ Returned(s, IF pc[s] = "add_commit" THEN "add_locked" ELSE "upd_locked")
  /\ UNCHANGED <<nextEmployeeId, lastOp, session, matchVars, envVars>>

\* sqlite3.OperationalError "database is locked" at COMMIT: the wait for
\* the other connection to end its reading has timed out
CommitLocked(s) ==
  /\ pc[s] \in {"add_commit", "upd_commit"}
  /\ ~ReadersGone(s)
  /\ Returned(s, IF pc[s] = "add_commit" THEN "add_locked" ELSE "upd_locked")
  /\ UNCHANGED <<storeVars, session, matchVars, envVars>>

\* the emails the two calls are made with: two spellings of one address,
\* and another address
RaceEmails == {" Ann@X.org", "ann@x.org", "bob@x.org"}

\* the arguments of the two calls: add_employee (no id) or update_employee
RaceInputs ==
  {[employee_id |-> id, name |-> "Ann", email |-> e, potential |-> "Sales",
    communication |-> "Good", process_name |-> n] :
     id \in {NoId} \cup {e.id : e \in UNION {{q[i] : i \in DOMAIN q} : q \in RaceEmployees}},
     e \in RaceEmails, n \in ProcessNames \cup {None}}

EmailRaceInit ==
  /\ processes \in StoreCatalogs
  /\ employees \in RaceEmployees
  /\ nextEmployeeId = Len(employees) + 1
  /\ nextProcessId = Len(processes) + 1
  /\ is_cloud = TRUE
  /\ session = [s \in Sessions |-> load_processes_from_db(processes)]
  /\ call \in [Sessions -> {Connection(a) : a \in RaceInputs}]
  /\ pc = [s \in Sessions |->
             IF call[s].input.employee_id = NoId
             THEN "add_email" ELSE "upd_email"]
  /\ outcome = [s \in Sessions |-> NoOutcome]
  /\ lastOp = RaceSeen(processes, employees)
  /\ query = NoQuery
  /\ matches = <<>>

EmailRaceNext ==
  \/ \E s \in Sessions : AddCheckEmail(s)
  \/ \E s \in Sessions : AddSelect(s)
  \/ \E s \in Sessions : AddUpdate(s)
  \/ \E s \in Sessions : AddInsert(s)
  \/ \E s \in Sessions : AddCommit(s)
  \/ \E s \in Sessions : UpdCheckEmail(s)
  \/ \E s \in Sessions : UpdWrite(s)
  \/ \E s \in Sessions : UpdCommit(s)
  \/ \E s \in Sessions : CommitLocked(s)

\* two concurrent calls, each add_employee or update_employee
EmailRaceSpec == EmailRaceInit /\ [][EmailRaceNext]_vars

\* ------------------------------------------------------ vacancy edits
\* the changes update_process_vacancy is called with
VacancyChanges == (0 - MaxVacancy - 1) .. MaxVacancy

\* observer: the call of update_process_vacancy, the catalog it found and
\* what it returned
EditSeen(process_name, change, ok) ==
  [stage |-> "edited", id |-> NoId, from |-> None, process |-> process_name,
   before |-> processes, change |-> change, ok |-> ok]

\* a call of update_process_vacancy(process_name, change); the vacancies are
\* kept within the model's range
EditVacancy(process_name, change) ==
  LET r == update_process_vacancy(processes, employees, process_name, change)
  IN /\ \A i \in DOMAIN r.processes : r.processes[i].vacancy <= MaxVacancy
     /\ processes' = r.processes
     /\ lastOp' = EditSeen(process_name, change, r.ok)
     /\ UNCHANGED <<employees, nextEmployeeId, formVars, matchVars, envVars>>

EditNext ==
  \E n \in ProcessNames \cup {UnknownProcess}, ch \in VacancyChanges :
    EditVacancy(n, ch)

\* manual vacancy edits on the catalogs of the application
EditSpec == AppInit /\ [][EditNext]_vars

\* ------------------------------------------- reassignment after an import
RemovalNext ==
  \/ \E f \in Profiles, n \in ProcessNames \cup {None} :
       AddEmployee(f.name, f.email, f.potential, f.communication, n)
  \/ \E t \in ImportTables : SaveProcessesToDb(t)
  \/ \E id \in EmployeeIds, f \in Profiles, n \in ProcessNames \cup {None} :
       UpdateEmployee(id, f.name, f.email, f.potential, f.communication, n)

\* imports that drop processes, with the store calls that add and reassign
\* employees
RemovalSpec == Init /\ [][RemovalNext]_vars

\* ------------------------------------------------- names in the catalog
\* uploaded files of up to two valid rows, the rows of one name
NamedFiles ==
  {f \in Files :
     /\ f.columns = required_columns
     /\ \A k \in DOMAIN f.rows :
          /\ f.rows[k].name = "Alpha"
          /\ f.rows[k].potential = "Sales"
          /\ f.rows[k].communication = "Good"
          /\ f.rows[k].numeric
          /\ f.rows[k].vacancy >= 0}

NamesNext ==
  \/ \E s \in Sessions, f \in NamedFiles : Upload(s, f)
  \/ \E n \in ProcessNames, ch \in Changes : UpdateProcessVacancy(n, ch)

\* uploads through app.py and vacancy updates addressed by name
NamesSpec == Init /\ [][NamesNext]_vars

\* ------------------------------------------------------ slots of a process
\* the store calls that assign, move and release employees; query.data keeps
\* the catalog the behaviour started from
SlotInit ==
  /\ Start(StoreCatalogs)
  /\ query = [NoQuery EXCEPT !.data = processes]
  /\ is_cloud = TRUE

SlotNext ==
  \/ \E f \in Profiles, n \in ProcessNames \cup {None, UnknownProcess} :
       AddEmployee(f.name, f.email, f.potential, f.communication, n)
  \/ \E id \in EmployeeIds, f \in Profiles, n \in ProcessNames \cup {None} :
       UpdateEmployee(id, f.name, f.email, f.potential, f.communication, n)
  \/ \E id \in EmployeeIds : DeleteEmployee(id)

SlotSpec == SlotInit /\ [][SlotNext]_vars

\* two form submissions, one per session, racing for Alpha's only vacancy
RaceInit == AppInit /\ FetchOne(processes, "Alpha").vacancy = 1

RaceNext ==
  \/ \E s \in Sessions, e \in EmployeeNames, p \in Potentials,
        c \in Communications :
       outcome[s].status = "none" /\ SubmitMatch(s, e, p, c)
  \/ \E s \in Sessions, e \in EmployeeNames, p \in Potentials,
        c \in Communications :
       outcome[s].status = "none" /\ SubmitNoMatch(s, e, p, c)
  \/ \E s \in Sessions : HandlerUpdateVacancy(s)
  \/ \E s \in Sessions : HandlerAddEmployee(s)

RaceSpec == RaceInit /\ [][RaceNext]_vars

\* ----------------------------------------------------------------- claims
VacancyOf(procs, process_name) == FetchOne(procs, process_name).vacancy

\* C1: from a catalog with every vacancy >= 0, after any sequence of
\* add_employee, update_employee, delete_employee and update_process_vacancy
\* calls every process of the catalog has vacancy >= 0
VacancyNeverNegative ==
  \A i \in DOMAIN processes : processes[i].vacancy >= 0

\* C1 witness: a process brought to vacancy 0 that an employee is assigned to
DepletedByAssignment ==
  \E i \in DOMAIN processes, j \in DOMAIN employees :
    /\ processes[i].vacancy = 0
    /\ employees[j].process_name = processes[i].name

NoMatchRecordsUnassigned ==
  [][\A s \in Sessions :
       (outcome[s].status # "TypeError" /\ outcome'[s].status = "TypeError")
         => /\ Len(employees') = Len(employees) + 1
            /\ employees'[Len(employees')].process_name = None
            /\ processes' = processes]_vars

ReassignAllOrNothing ==
  [][(lastOp'.stage = "reassign_failed" /\ lastOp' # lastOp)
       => processes' = processes /\ employees' = employees]_vars

\* C8 witness: a reassignment away from a held process has just failed
ReassignFromHeldFailed ==
  /\ lastOp.stage = "reassign_failed"
  /\ Truthy(lastOp.from)
  /\ HasEmployee(employees, lastOp.id)
  /\ lastOp.process \in ProcessNames
  /\ RowsNamed(processes, lastOp.process) # {}

\* C9: an update_employee that moves an employee from P to another process Q
\* adds 1 to P's vacancy if the employee had P, takes 1 from Q's vacancy if
\* Q is given, and changes nothing else of the catalog
ReassignMovesOneSlot ==
  [][(lastOp'.stage = "reassigned" /\ lastOp' # lastOp)
       => /\ DOMAIN processes' = DOMAIN processes
          /\ \A i \in DOMAIN processes :
               processes'[i] =
                 [processes[i] EXCEPT !.vacancy =
                    @ + (IF processes[i].name = lastOp'.from THEN 1 ELSE 0)
                      - (IF processes[i].name = lastOp'.process
                         THEN 1 ELSE 0)]]_vars

\* C9 witness: an employee has just been moved from one process to another
ReassignedBetweenProcesses ==
  /\ lastOp.stage = "reassigned"
  /\ Truthy(lastOp.from)
  /\ Truthy(lastOp.process)
  /\ EmployeeById(employees, lastOp.id).process_name = lastOp.process

\* C10: when some row has the requested potential and communication and a
\* vacancy, find_matching_process returns exactly those rows
ExactRows ==
  {i \in DOMAIN query.data :
     /\ query.data[i].potential = Strip(query.potential)
     /\ query.data[i].communication = Strip(query.communication)
     /\ query.data[i].vacancy > 0}

ExactMatchesOnly ==
  (query.asked /\ ExactRows # {}) =>
    /\ {matches[k] : k \in DOMAIN matches} = {query.data[i] : i \in ExactRows}
    /\ Len(matches) = Cardinality(ExactRows)

\* C10 witness: an exact match was returned although a row of the same
\* potential and another communication had a vacancy too
ExactPreferredOverFallback ==
  /\ query.asked
  /\ ExactRows # {}
  /\ matches # <<>>
  /\ \E i \in DOMAIN query.data :
       /\ query.data[i].potential = Strip(query.potential)
       /\ query.data[i].communication # Strip(query.communication)
       /\ query.data[i].vacancy > 0

\* C11: when no row has the requested potential and communication and a
\* vacancy, find_matching_process returns exactly the rows that have the
\* requested potential and a vacancy, whatever their communication
PotentialRows ==
  {i \in DOMAIN query.data :
     /\ query.data[i].potential = Strip(query.potential)
     /\ query.data[i].vacancy > 0}

FallbackMatchesByPotential ==
  (query.asked /\ ExactRows = {}) =>
    /\ {matches[k] : k \in DOMAIN matches}
         = {query.data[i] : i \in PotentialRows}
    /\ Len(matches) = Cardinality(PotentialRows)

\* C11 witness: the fallback returned a row of another communication
FallbackUsed ==
  /\ query.asked
  /\ ExactRows = {}
  /\ matches # <<>>
  /\ matches[1].communication # Strip(query.communication)

\* C12: the returned list is ordered by vacancy descending, then by name
\* ascending, and its first row is the same for every order of the input rows
RankedAndOrderFree ==
  query.asked =>
    /\ \A k \in 1..(Len(matches) - 1) :
         \/ matches[k].vacancy > matches[k + 1].vacancy
         \/ /\ matches[k].vacancy = matches[k + 1].vacancy
            /\ NameRank(matches[k].name) < NameRank(matches[k + 1].name)
    /\ \A d \in Reorderings(query.data) :
         LET m == find_matching_process(d, query.potential,
                                        query.communication)
         IN /\ (m = <<>>) = (matches = <<>>)
            /\ m # <<>> => m[1] = matches[1]

\* C12 witness: Alpha is returned before Beta of the same vacancy although
\* the input had Beta first
TieBrokenByName ==
  /\ query.asked
  /\ Len(matches) >= 2
  /\ matches[1].vacancy = matches[2].vacancy
  /\ matches[1].name = "Alpha"
  /\ matches[2].name = "Beta"
  /\ query.data[1].name = "Beta"

\* C13: every returned row has the requested potential and a vacancy, and
\* when no row with a vacancy has the requested potential nothing is
\* returned, even if rows of the requested communication have vacancies
PotentialIsRequired ==
  query.asked =>
    /\ \A k \in DOMAIN matches :
         /\ matches[k].potential = Strip(query.potential)
         /\ matches[k].vacancy > 0
    /\ PotentialRows = {} => matches = <<>>

\* C13 witness: nothing was returned although a row of the requested
\* communication had a vacancy
CommunicationAloneNotEnough ==
  /\ query.asked
  /\ matches = <<>>
  /\ \E i \in DOMAIN query.data :
       /\ query.data[i].communication = Strip(query.communication)
       /\ query.data[i].vacancy > 0

\* C14 (as claimed): get_process_suggestions returns exactly the rows with a
\* vacancy that have the requested potential or the requested communication,
\* each scored 2 for the potential plus 1 for the communication, ordered by
\* score descending, then vacancy descending, then name ascending
SuggestedRows ==
  {i \in DOMAIN query.data :
     /\ \/ query.data[i].potential = Strip(query.potential)
        \/ query.data[i].communication = Strip(query.communication)
     /\ query.data[i].vacancy > 0}

Score(r) ==
  (IF r.potential = Strip(query.potential) THEN 2 ELSE 0)
    + (IF r.communication = Strip(query.communication) THEN 1 ELSE 0)

SuggestionsScoredAndRanked ==
  query.asked =>
    /\ Len(matches) = Cardinality(SuggestedRows)
    /\ {[name |-> matches[k].name, potential |-> matches[k].potential,
          communication |-> matches[k].communication,
          vacancy |-> matches[k].vacancy] : k \in DOMAIN matches}
         = {query.data[i] : i \in SuggestedRows}
    /\ \A k \in DOMAIN matches :
         /\ "relevance" \in DOMAIN matches[k]
         /\ matches[k].relevance = Score(matches[k])
    /\ \A k \in 1..(Len(matches) - 1) :
         LET a == matches[k]
             b == matches[k + 1]
         IN \/ Score(a) > Score(b)
            \/ Score(a) = Score(b) /\ a.vacancy > b.vacancy
            \/ /\ Score(a) = Score(b)
               /\ a.vacancy = b.vacancy
               /\ NameRank(a.name) < NameRank(b.name)

\* C17 (as claimed): the validator does not reject a table for a negative
\* vacancy; the catalog it returns has 0 in place of each negative vacancy
\* and every other vacancy unchanged
OtherwiseValid(file) ==
  /\ required_columns \subseteq file.columns
  /\ \A k \in DOMAIN file.rows :
       /\ file.rows[k].numeric
       /\ file.rows[k].potential \in valid_potentials
       /\ file.rows[k].communication \in valid_communications

NegativeVacancyClamped ==
  query.asked =>
    /\ OtherwiseValid(query.data) => matches.ok
    /\ matches.ok =>
         /\ Len(matches.data) = Len(query.data.rows)
         /\ \A k \in DOMAIN matches.data :
              /\ matches.data[k].vacancy >= 0
              /\ matches.data[k].vacancy =
                   (IF query.data.rows[k].vacancy < 0
                    THEN 0 ELSE query.data.rows[k].vacancy)

\* C18 (as claimed): the validator trims name, potential and communication
\* and then accepts the table if and only if every trimmed potential and
\* every trimmed communication is one of the recognised values
TrimmedThenValid(file) ==
  \A k \in DOMAIN file.rows :
    /\ Strip(file.rows[k].potential) \in valid_potentials
    /\ Strip(file.rows[k].communication) \in valid_communications

TrimmedValuesDecide ==
  ( /\ query.asked
    /\ required_columns \subseteq query.data.columns
    /\ \A k \in DOMAIN query.data.rows :
         query.data.rows[k].numeric )
    => /\ matches.ok = TrimmedThenValid(query.data)
       /\ matches.ok =>
            \A k \in DOMAIN matches.data :
              /\ matches.data[k].name = Strip(query.data.rows[k].name)
              /\ matches.data[k].potential
                   = Strip(query.data.rows[k].potential)
              /\ matches.data[k].communication
                   = Strip(query.data.rows[k].communication)

\* C15 (as claimed): from every reachable store state save_processes_to_db
\* succeeds and leaves exactly the rows of the table it was given
StoredCatalog == [i \in DOMAIN processes |-> CatalogRow(processes[i])]

ImportReplacesCatalog ==
  lastOp.stage = "saved" => lastOp.ok /\ StoredCatalog = lastOp.before

\* C16: an upload whose validation fails leaves the stored catalog and the
\* catalog of every session as they were
FailedUploadChangesNothing ==
  [][\A s \in Sessions :
       (outcome'[s].status = "upload_error" /\ outcome'[s] # outcome[s])
         => processes' = processes /\ session' = session]_vars

\* C16 witness: a session holding a catalog has had an upload rejected
UploadRejected ==
  \E s \in Sessions :
    /\ outcome[s].status = "upload_error"
    /\ session[s] # <<>>
    /\ processes # <<>>

\* C19 (as claimed): a validated catalog that is stored and loaded back, or
\* written to a file and read back, comes back with the same rows
SameRows(a, b) ==
  /\ Len(a) = Len(b)
  /\ \E f \in Reorderings(a) : f = b

RoundTripKeepsRows ==
  lastOp.stage = "reloaded" =>
    /\ SameRows(lastOp.loaded, lastOp.before)
    /\ load_data(save_data(lastOp.before)).ok
    /\ SameRows(load_data(save_data(lastOp.before)).data, lastOp.before)

\* the store after the two calls of the race, run one after the other
SaveThenAdd(procs, emps, table, a) ==
  LET r == save_processes_to_db(procs, emps, Len(procs) + 1, table)
      q == add_employee(r.processes, emps, Len(emps) + 1, a.name, a.email, a.potential, a.communication, a.process_name)
  IN <<q.processes, q.employees>>

AddThenSave(procs, emps, table, a) ==
  LET q == add_employee(procs, emps, Len(emps) + 1, a.name, a.email, a.potential, a.communication, a.process_name)
      r == save_processes_to_db(q.processes, q.employees, Len(procs) + 1, table)
  IN <<r.processes, q.employees>>

BothReturned == \A s \in Sessions : pc[s] = "done"

\* C20 (as claimed): whatever the interleaving of a save_processes_to_db
\* call with an add_employee call, once both have returned the catalog and
\* the employees are what one of the two serial orders of the calls leaves
ImportExclusiveOfAllocation ==
  BothReturned =>
    LET table == call[Min(Sessions)].input
        a == call[Other(Min(Sessions))].input
    IN <<processes, employees>>
         \in {SaveThenAdd(lastOp.before, lastOp.employees, table, a),
              AddThenSave(lastOp.before, lastOp.employees, table, a)}

\* C21: under every interleaving of two add_employee or update_employee
\* calls no two employee records have the same email up to case, and a call
\* whose email another record holds when it returns has failed and left the
\* catalog and the employees as they were
EmailsUnique ==
  \A i, j \in DOMAIN employees :
    i # j => Lower(employees[i].email) # Lower(employees[j].email)

DuplicateRefused ==
  \A s \in Sessions :
    ( /\ pc[s] # "done"
      /\ pc'[s] = "done"
      /\ EmailTaken(employees, NormalizeEmail(call[s].input.email), call[s].input.employee_id) )
    => /\ outcome'[s].status \notin {"added", "updated"}
       /\ processes' = processes
       /\ employees' = employees

EmailUniqueUnderRace == []EmailsUnique /\ [][DuplicateRefused]_vars

\* C21 witness: one call has stored the address, the other, made with another
\* spelling of it and a process with a vacancy, has failed
DuplicateLostRace ==
  \E s \in Sessions :
    /\ BothReturned
    /\ outcome[Other(s)].status \in {"added", "updated"}
    /\ outcome[s].status \notin {"added", "updated"}
    /\ call[s].input.email # call[Other(s)].input.email
    /\ Truthy(call[s].input.process_name)
    /\ RowsNamed(lastOp.before, call[s].input.process_name) # {}
    /\ VacancyOf(lastOp.before, call[s].input.process_name) > 0

\* C22: a failing return of add_employee leaves the catalog and the
\* employees as they were before the call, so a call made after it starts
\* from the store the failed call found
AddFailures == {"add_rejected", "add_locked", "add_error"}

AddFailureFrame ==
  \A s \in Sessions :
    (pc[s] # "done" /\ pc'[s] = "done" /\ outcome'[s].status \in AddFailures)
    => /\ processes' = processes
       /\ employees' = employees
       /\ nextEmployeeId' = nextEmployeeId

FailedAddLeavesStart ==
  \A s \in Sessions :
    (outcome[s].status \in AddFailures /\ pc[Other(s)] = "add_email")
    => /\ processes = lastOp.before
       /\ employees = lastOp.employees
       /\ nextEmployeeId = Len(lastOp.employees) + 1

FailedAddChangesNothing == []FailedAddLeavesStart /\ [][AddFailureFrame]_vars

\* C22 witness: after one add_employee has failed, an add_employee for
\* another address and a process with a vacancy has been made and has stored
\* its record with the slot taken
AllocatedAfterFailedAdd ==
  \E s \in Sessions :
    /\ BothReturned
    /\ outcome[s].status \in AddFailures
    /\ outcome[Other(s)].status = "added"
    /\ NormalizeEmail(call[s].input.email) # NormalizeEmail(call[Other(s)].input.email)
    /\ Truthy(call[Other(s)].input.process_name)
    /\ processes = ConditionalDecrement(lastOp.before, call[Other(s)].input.process_name)

\* C23: update_process_vacancy(p, c) leaves p with max(0, v + c) when c < 0
\* and with v + c when c >= 0, every other row as it was, and returns True;
\* for a name not in the catalog it returns False and changes nothing
VacancyEditClampedAtZero ==
  lastOp.stage = "edited" =>
    IF RowsNamed(lastOp.before, lastOp.process) = {}
    THEN ~lastOp.ok /\ processes = lastOp.before
    ELSE /\ lastOp.ok
         /\ DOMAIN processes = DOMAIN lastOp.before
         /\ \A i \in DOMAIN processes :
              LET v == lastOp.before[i].vacancy
                  c == lastOp.change
              IN processes[i] =
                   IF lastOp.before[i].name # lastOp.process
                   THEN lastOp.before[i]
                   ELSE [lastOp.before[i] EXCEPT !.vacancy =
                           IF c < 0 /\ v + c < 0 THEN 0 ELSE v + c]

\* C23 witness: a decrease larger than the vacancy has left the process at 0
DecreaseHeldAtZero ==
  /\ lastOp.stage = "edited"
  /\ lastOp.change < 0
  /\ RowsNamed(lastOp.before, lastOp.process) # {}
  /\ VacancyOf(lastOp.before, lastOp.process) > 0
  /\ VacancyOf(lastOp.before, lastOp.process) + lastOp.change < 0
  /\ VacancyOf(processes, lastOp.process) = 0

ImportKeepsEmployees ==
  \A t \in ImportTables : SaveProcessesToDb(t) => employees' = employees

ReassignToMissingFails ==
  \A i \in DOMAIN employees, n \in ProcessNames :
    (RowsNamed(processes, n) = {} /\ employees[i].process_name # n)
    => LET e == employees[i]
           r == update_employee(processes, employees, e.id, e.name, e.email, e.potential, e.communication, n)
       IN ~r.ok /\ r.processes = processes /\ r.employees = employees
          /\ r.msg = "Process not found"

ReassignedToStored ==
  lastOp.stage = "reassigned" /\ Truthy(lastOp.process)
    => RowsNamed(processes, lastOp.process) # {}

RemovedProcessKeepsEmployees ==
  /\ []ReassignToMissingFails
  /\ []ReassignedToStored
  /\ [][ImportKeepsEmployees]_vars

\* C25 witness: Alpha, which every catalog starts with, has been dropped by
\* an import while an employee was stored, and the employee's reassignment
\* to Alpha has failed
ReassignToRemovedRefused ==
  /\ lastOp.stage = "reassign_failed"
  /\ lastOp.process = "Alpha"
  /\ RowsNamed(processes, "Alpha") = {}
  /\ HasEmployee(employees, lastOp.id)

\* C26 (as claimed): no two rows of the stored catalog have the same name
ProcessNameIsKey ==
  \A i, j \in DOMAIN processes :
    i # j => processes[i].name # processes[j].name

\* C27: with no import and no manual edit, the vacancy of every process plus
\* the number of employee records assigned to it stays what the vacancy was
\* at the start, so no more employees are assigned than there were slots
AssignedTo(process_name) ==
  Cardinality({i \in DOMAIN employees :
                 employees[i].process_name = process_name})

SlotsConserved ==
  /\ DOMAIN processes = DOMAIN query.data
  /\ \A i \in DOMAIN processes :
       /\ processes[i].name = query.data[i].name
       /\ processes[i].vacancy + AssignedTo(processes[i].name)
            = query.data[i].vacancy
       /\ AssignedTo(processes[i].name) <= query.data[i].vacancy

\* C27 witness: an employee has been moved into the last slot of a process
LastSlotTakenByMove ==
  \E i \in DOMAIN processes :
    /\ lastOp.stage = "reassigned"
    /\ lastOp.process = processes[i].name
    /\ Truthy(lastOp.from)
    /\ processes[i].vacancy = 0
    /\ query.data[i].vacancy > 0

\* C28 (as claimed): load_processes_from_db, in the cloud or outside it,
\* leaves the catalog and the employees as they were and returns the catalog
\* that was stored before the call
LoadIsReadOnly ==
  [][\A s \in Sessions :
       LoadProcessesFromDb(s)
         => /\ processes' = processes
            /\ employees' = employees
            /\ session'[s] = load_processes_from_db(processes)]_vars

\* C29: while a process has vacancy 0, no call gives it an employee it did
\* not have: the employees assigned to it can only stay or leave until its
\* vacancy has been raised
AssignedIds(emps, process_name) ==
  {emps[i].id : i \in {k \in DOMAIN emps : emps[k].process_name = process_name}}

NoAssignmentWhileDepleted ==
  [][\A n \in ProcessNames :
       (RowsNamed(processes, n) # {} /\ VacancyOf(processes, n) = 0)
         => AssignedIds(employees', n) \subseteq AssignedIds(employees, n)]_vars

\* C29 witness: a reassignment into a process with vacancy 0 has been
\* refused, and the process still has the employee who took its last slot
AssignToDepletedRefused ==
  /\ lastOp.stage = "reassign_failed"
  /\ RowsNamed(processes, lastOp.process) # {}
  /\ VacancyOf(processes, lastOp.process) = 0
  /\ AssignedIds(employees, lastOp.process) # {}
  /\ lastOp.id \notin AssignedIds(employees, lastOp.process)

====
